---- MODULE Spec2Model ----
(***************************************************************************)
(* A model of the brainfuck interpreter of rs-brainf.ck.                   *)
(*                                                                         *)
(* The repository holds two programs over the same language:               *)
(*   - src/src/brainfuck.rs : the VMCore library (new / load / execute),   *)
(*   - src/src/main.rs      : a stand-alone binary with its own loader,    *)
(*                            jump resolver and inline interpreter loop.   *)
(* Both are modelled.  The variable driver says which of the two runs in a *)
(* behaviour; the other one stays in its initial state.                    *)
(*                                                                         *)
(* Offsets are 0-based as in the source; TLA+ sequences are 1-based, so    *)
(* the byte at offset i of a buffer s is s[i + 1].                         *)
(***************************************************************************)
EXTENDS Integers, Sequences, FiniteSets, TLC

VARIABLES
    driver,     \* "vm": a caller of VMCore (new, load, execute); "main": main.rs;
                \* "both": the two of them side by side on one file and input
    argc,       \* main.rs: env::args().len(), 1 when no source file is named
    file,       \* the program source on disk: [exists, bytes]
    vm,         \* the VMCore struct, the caller's position and stdout
    mn,         \* main.rs: the locals of main(), its position, stdout, exit code
    ev,         \* the last step taken: what was fetched, what the device returned
    inside      \* side by side: no dispatch so far moved a data pointer past
                \* an end of its tape

vars == <<driver, argc, file, vm, mn, ev, inside>>

----------------------------------------------------------------------------
(* Bounds of the model.                                                    *)

\* log2 of the VMCore code buffer: brainfuck.rs:17 has 1 << 15
CodeBits == 4
\* log2 of the VMCore data tape: brainfuck.rs:18 has 1 << 15
DataBits == 2
\* main.rs:8 has 32168 (not a power of two)
MAIN_CODE_SIZE == 12
\* main.rs:9 has 32168 (not a power of two)
MAIN_DATA_SIZE == 3
\* longest source file over the full alphabet
MaxLen == 3
\* longest source file over the bracket alphabet
MaxBracketLen == 4
\* longest source file over the alphabet of '+' and '-'
MaxArithLen == 8
\* most '+' in front of the loop [>+<-] of a counting program
MaxCount == 9
\* characters written by '.' after which a run is no longer followed
MaxOut == 2

----------------------------------------------------------------------------
(* Constants of the program.                                               *)

CODE_SIZE == 2 ^ CodeBits
DATA_SIZE == 2 ^ DataBits

DATA_VALUE_INC == 43
READ_CHAR == 44
DATA_VALUE_DEC == 45
WRITE_CHAR == 46
DATA_PTR_DEC == 60
DATA_PTR_INC == 62
JUMP_FWD == 91
JUMP_BCK == 93

Opcodes == {DATA_VALUE_INC, READ_CHAR, DATA_VALUE_DEC, WRITE_CHAR,
            DATA_PTR_DEC, DATA_PTR_INC, JUMP_FWD, JUMP_BCK}

----------------------------------------------------------------------------
(* Machine arithmetic.                                                     *)

RECURSIVE BitAndNat(_, _)
\* a & b on two naturals, bit by bit
BitAndNat(a, b) ==
    IF a = 0 \/ b = 0 THEN 0
    ELSE (a % 2) * (b % 2) + 2 * BitAndNat(a \div 2, b \div 2)

\* x & m for a two's complement x of any width and a mask m >= 0 of that
\* width: the bits of a negative x are the complement of those of -x - 1
BitAnd(x, m) ==
    IF x >= 0 THEN BitAndNat(x, m) ELSE m - BitAndNat(-x - 1, m)

\* `as u8` of a value
AsU8(x) == x % 256

\* char::to_digit(10): Some(d) for an ASCII digit, None otherwise
to_digit(c) ==
    IF c >= 48 /\ c <= 57 THEN [some |-> TRUE, val |-> c - 48]
    ELSE [some |-> FALSE, val |-> 0]

----------------------------------------------------------------------------
(* HashMap<usize, usize> as a function on its key set.                     *)

EmptyMap == [k \in {} |-> 0]

Insert(m, k, v) == [x \in (DOMAIN m) \cup {k} |-> IF x = k THEN v ELSE m[x]]

\* the byte of buffer s at offset i
At(s, i) == s[i + 1]

Min(a, b) == IF a <= b THEN a ELSE b

----------------------------------------------------------------------------
(* brainfuck.rs: the Jump Resolver of VMCore.                              *)

\* a resolver that maps each bracket to its partner, not one past it
jumps_insert_partner(jumps, value, counter) ==
    Insert(Insert(jumps, value, counter), counter, value)

\* a resolver that forgets the entry of the ']'
jumps_insert_open_only(jumps, value, counter) ==
    Insert(jumps, value, counter + 1)

\* a resolver that adds to an entry already present instead of replacing it
jumps_insert_accumulating(jumps, value, counter) ==
    LET old(k) == IF k \in DOMAIN jumps THEN jumps[k] ELSE 0
    IN  Insert(Insert(jumps, value, old(value) + counter + 1),
               counter, old(counter) + value + 1)

\* the two inserts of one matched pair: value is the '[' popped from the
\* stack, counter the offset of the ']' being scanned
jumps_insert(jumps, value, counter) ==
    Insert(Insert(jumps, value, counter + 1), counter, value + 1)

RECURSIVE cj_scan(_, _, _, _, _)
\* the while loop and the final check of compute_jumps, from offset counter
\* with the given stack; jumps is self.jumps, which the scan fills in place,
\* so an Err leaves the pairs inserted so far
cj_scan(code, nbytes, counter, stack, jumps) ==
    IF counter >= nbytes
    THEN [ok |-> Len(stack) = 0, fault |-> "none", jumps |-> jumps]
    ELSE IF counter >= Len(code)
    THEN [ok |-> FALSE, fault |-> "index", jumps |-> jumps]
    ELSE LET opcode == At(code, counter)
             pushed == IF opcode = JUMP_FWD THEN Append(stack, counter)
                       ELSE stack
         IN  IF opcode = JUMP_BCK
             THEN IF Len(pushed) = 0
                  THEN [ok |-> FALSE, fault |-> "none", jumps |-> jumps]
                  ELSE LET value == pushed[Len(pushed)]
                           popped == SubSeq(pushed, 1, Len(pushed) - 1)
                       IN  cj_scan(code, nbytes, counter + 1, popped,
                                   jumps_insert(jumps, value, counter))
             ELSE cj_scan(code, nbytes, counter + 1, pushed, jumps)

\* VMCore::compute_jumps(&mut self, nbytes) on a VM whose fields are code
\* and jumps: [ok, fault, jumps]; ok = FALSE with fault = "none" is the Err
\* "unbalanced number of '[' and ']'"
compute_jumps(code, jumps, nbytes) == cj_scan(code, nbytes, 0, <<>>, jumps)

----------------------------------------------------------------------------
(* brainfuck.rs: the instruction handlers.  Each takes the VMCore record   *)
(* and returns it after the call.                                          *)

Panic(s, why) == [s EXCEPT !.state = "panic", !.fault = why]

\* an increment that saturates at 255 instead of wrapping
data_value_inc_saturating(s) ==
    [s EXCEPT !.data[s.dp] = IF @ = 255 THEN 255 ELSE @ + 1]

data_value_inc(s) ==
    LET value == s.data[s.dp]
    IN  [s EXCEPT !.data[s.dp] = AsU8(BitAnd(value + 1, 255))]

\* a decrement that writes the cell to the right of the data pointer
data_value_dec_next_cell(s) ==
    LET value == s.data[s.dp]
    IN  [s EXCEPT !.data[(s.dp + 1) % DATA_SIZE] = AsU8(BitAnd(value - 1, 255))]

data_value_dec(s) ==
    LET value == s.data[s.dp]
    IN  [s EXCEPT !.data[s.dp] = AsU8(BitAnd(value - 1, 255))]

data_ptr_inc(s) == [s EXCEPT !.dp = BitAnd(s.dp + 1, DATA_SIZE - 1)]

data_ptr_dec(s) ==
    LET value == s.dp
        max == DATA_SIZE
    IN  [s EXCEPT !.dp = BitAnd(value - 1, max - 1)]

\* self.jumps[&value]: the index operator of HashMap panics on a missing key
jump_take(s) ==
    LET value == s.pc - 1
    IN  IF value \in DOMAIN s.jumps THEN [s EXCEPT !.pc = s.jumps[value]]
        ELSE Panic(s, "no jump entry")

jump_fwd(s) == IF s.data[s.dp] = 0 THEN jump_take(s) ELSE s

\* a backward jump taken on a zero cell
jump_bck_on_zero(s) == IF s.data[s.dp] = 0 THEN jump_take(s) ELSE s

jump_bck(s) == IF s.data[s.dp] # 0 THEN jump_take(s) ELSE s

\* the items of stdout: a character written by '.', a line of the jump
\* table printed by load, a message of main.rs
Chr(v) == <<"chr", v, 0>>
JumpLine(k, v) == <<"jump", k, v>>

write_char(s) == [s EXCEPT !.out = Append(@, Chr(s.data[s.dp]))]

\* what Term::read_char returned: a character (its code point) or NoChar
NoChar == -1
InputChars == {48, 55, 97}
ReadResults == InputChars \cup {NoChar}

\* a read that stores 0 when the device has no character
read_char_zero_on_none(s, rd) ==
    IF rd = NoChar THEN [s EXCEPT !.data[s.dp] = 0]
    ELSE LET d == to_digit(rd)
         IN  IF d.some THEN [s EXCEPT !.data[s.dp] = AsU8(BitAnd(d.val, 255))]
             ELSE Panic(s, "unwrap on None")

\* the READ_CHAR arm: Ok(value) stores the digit, anything else continues
read_char(s, rd) ==
    IF rd = NoChar THEN s
    ELSE LET d == to_digit(rd)
         IN  IF d.some THEN [s EXCEPT !.data[s.dp] = AsU8(BitAnd(d.val, 255))]
             ELSE Panic(s, "unwrap on None")

\* an interpreter that rejects a byte that is no opcode
unknown_opcode_rejected(s) == Panic(s, "unknown opcode")

\* the arm `_ => continue` of the match
unknown_opcode(s) == s

\* one iteration of the while loop of execute: fetch, advance pc, dispatch
execute_step(s, rd) ==
    LET opcode == At(s.code, s.pc)
        t == [s EXCEPT !.pc = s.pc + 1]
    IN  CASE opcode = DATA_VALUE_INC -> data_value_inc(t)
          [] opcode = DATA_VALUE_DEC -> data_value_dec(t)
          [] opcode = DATA_PTR_INC -> data_ptr_inc(t)
          [] opcode = DATA_PTR_DEC -> data_ptr_dec(t)
          [] opcode = JUMP_FWD -> jump_fwd(t)
          [] opcode = JUMP_BCK -> jump_bck(t)
          [] opcode = WRITE_CHAR -> write_char(t)
          [] opcode = READ_CHAR -> read_char(t, rd)
          [] OTHER -> unknown_opcode(t)

\* VMCore::new()
new == [state |-> "new", fault |-> "none", n |-> 0,
        pc |-> 0, dp |-> 0, code |-> <<>>,
        data |-> [i \in 0 .. DATA_SIZE - 1 |-> 0],
        jumps |-> EmptyMap, out |-> <<>>]

\* the sequences that list every element of S once: the orders in which a
\* HashMap of these keys can be iterated
Orders(S) ==
    {q \in [1 .. Cardinality(S) -> S] :
        \A i, j \in 1 .. Cardinality(S) : i # j => q[i] # q[j]}

\* VMCore::load(filename) on the VM s, with the for loop over self.jumps
\* visiting the keys in the order ord: the check of the path, the read into
\* a zeroed buffer of CODE_SIZE bytes, the push of the whole buffer, the
\* unwrap of compute_jumps and the print of the table
load(s, f, ord) ==
    IF ~f.exists THEN [s EXCEPT !.state = "err"]
    ELSE LET n == Min(Len(f.bytes), CODE_SIZE)
             program == [i \in 1 .. CODE_SIZE |->
                            IF i <= n THEN f.bytes[i] ELSE 0]
             code == s.code \o program
             r == compute_jumps(code, s.jumps, n)
             t == [s EXCEPT !.code = code, !.jumps = r.jumps, !.n = n]
         IN  IF ~r.ok THEN Panic(t, "unwrap on Err")
             ELSE [t EXCEPT !.state = "run",
                            !.out = @ \o [i \in 1 .. Len(ord) |->
                                            JumpLine(ord[i], r.jumps[ord[i]])]]

----------------------------------------------------------------------------
(* main.rs: the stand-alone binary.                                        *)

Msg(text) == <<text, 0, 0>>
BytesRead(n) == <<"bytes read.", n, 0>>

\* process::exit(code)
Exit(s, code) == [s EXCEPT !.state = "exit", !.exit = code]

\* a panic of the main thread: the process ends with status 101
MainPanic(s, why) == [s EXCEPT !.state = "exit", !.exit = 101, !.fault = why]

\* a loader that does not look for the file before it reads
read_code_unchecked(f) == [ok |-> TRUE, n |-> Min(Len(f.bytes), MAIN_CODE_SIZE)]

\* read_code: Err when the path does not exist, else the count that one read
\* into the buffer of MAIN_CODE_SIZE bytes returns
read_code(f) ==
    IF ~f.exists THEN [ok |-> FALSE, n |-> 0]
    ELSE [ok |-> TRUE, n |-> Min(Len(f.bytes), MAIN_CODE_SIZE)]

\* the two inserts of one matched pair in main.rs
main_jumps_insert(jumps, value, counter) ==
    Insert(Insert(jumps, value, counter + 1), counter, value + 1)

RECURSIVE main_cj_scan(_, _, _, _, _)
\* the while loop of compute_jumps of main.rs; the function returns the map
\* when the loop ends and has no check of the stack after it
main_cj_scan(code, nbytes, counter, stack, jumps) ==
    IF counter >= nbytes
    THEN [exit |-> FALSE, jumps |-> jumps]
    ELSE LET opcode == At(code, counter)
             pushed == IF opcode = 91 THEN Append(stack, counter) ELSE stack
         IN  IF opcode = 93
             THEN IF Len(pushed) = 0
                  THEN [exit |-> TRUE, jumps |-> jumps]
                  ELSE LET value == pushed[Len(pushed)]
                           popped == SubSeq(pushed, 1, Len(pushed) - 1)
                       IN  main_cj_scan(code, nbytes, counter + 1, popped,
                                        main_jumps_insert(jumps, value, counter))
             ELSE main_cj_scan(code, nbytes, counter + 1, pushed, jumps)

\* compute_jumps(&code, nbytes) of main.rs: [exit, jumps]; exit = TRUE is
\* the println of the error and process::exit(1)
main_compute_jumps(code, nbytes) ==
    main_cj_scan(code, nbytes, 0, <<>>, EmptyMap)

\* the state of main() when the process starts
main_new == [state |-> "start", exit |-> -1, fault |-> "none", nbytes |-> 0,
             pc |-> 0, dp |-> 0,
             code |-> [i \in 1 .. MAIN_CODE_SIZE |-> 0],
             data |-> [i \in 0 .. MAIN_DATA_SIZE - 1 |-> 0],
             jumps |-> EmptyMap, out |-> <<>>]

\* main() from its first line to the head of the interpreter loop, started
\* with n arguments (the program name included) on the file f
main_start(s, n, f) ==
    IF n = 0
    THEN Exit([s EXCEPT !.out = Append(@,
                 Msg("Please specify a source code file on the command line"))], 1)
    ELSE IF n < 2 THEN MainPanic(s, "index out of bounds: args[1]")
    ELSE LET r == read_code(f)
         IN  IF ~r.ok
             THEN Exit([s EXCEPT !.out = Append(@, Msg("Unable to find the file"))], 1)
             ELSE LET code == [i \in 1 .. MAIN_CODE_SIZE |->
                                 IF i <= r.n THEN f.bytes[i] ELSE 0]
                      j == main_compute_jumps(code, r.n)
                      t == [s EXCEPT !.code = code, !.nbytes = r.n,
                                     !.out = Append(@, BytesRead(r.n))]
                  IN  IF j.exit
                      THEN Exit([t EXCEPT !.out = Append(@,
                             Msg("Error: unbalanced number of '[' and ']' in the source code."))], 1)
                      ELSE [t EXCEPT !.state = "run", !.jumps = j.jumps,
                                     !.pc = 0, !.dp = 0]

\* data[dp as usize] is inside the array
InTape(s) == s.dp >= 0 /\ s.dp < MAIN_DATA_SIZE

\* pc = jumps[&value]
main_jump_take(s) ==
    LET value == s.pc - 1
    IN  IF value \in DOMAIN s.jumps THEN [s EXCEPT !.pc = s.jumps[value]]
        ELSE MainPanic(s, "no jump entry")

main_jump_fwd(s) ==
    IF ~InTape(s) THEN MainPanic(s, "index out of bounds: data")
    ELSE IF s.data[s.dp] = 0 THEN main_jump_take(s) ELSE s

main_jump_bck(s) ==
    IF ~InTape(s) THEN MainPanic(s, "index out of bounds: data")
    ELSE IF s.data[s.dp] # 0 THEN main_jump_take(s) ELSE s

main_ptr_inc(s) == [s EXCEPT !.dp = s.dp + 1]

main_ptr_dec(s) == [s EXCEPT !.dp = s.dp - 1]

main_value_inc(s) ==
    IF ~InTape(s) THEN MainPanic(s, "index out of bounds: data")
    ELSE [s EXCEPT !.data[s.dp] = AsU8(BitAnd(s.data[s.dp] + 1, 255))]

main_value_dec(s) ==
    IF ~InTape(s) THEN MainPanic(s, "index out of bounds: data")
    ELSE [s EXCEPT !.data[s.dp] = AsU8(BitAnd(s.data[s.dp] - 1, 255))]

main_write_char(s) ==
    IF ~InTape(s) THEN MainPanic(s, "index out of bounds: data")
    ELSE [s EXCEPT !.out = Append(@, Chr(s.data[s.dp]))]

\* the unwrap of to_digit is evaluated before the store indexes the tape
main_read_char(s, rd) ==
    IF rd = NoChar THEN s
    ELSE LET d == to_digit(rd)
         IN  IF ~d.some THEN MainPanic(s, "unwrap on None")
             ELSE IF ~InTape(s) THEN MainPanic(s, "index out of bounds: data")
             ELSE [s EXCEPT !.data[s.dp] = AsU8(BitAnd(d.val, 255))]

\* one iteration of the while loop of main(): the byte is fetched from the
\* array of MAIN_CODE_SIZE bytes; the ifs test one opcode, so one applies
main_step(s, rd) ==
    IF s.pc >= MAIN_CODE_SIZE THEN MainPanic(s, "index out of bounds: code")
    ELSE LET opcode == At(s.code, s.pc)
             t == [s EXCEPT !.pc = s.pc + 1]
         IN  CASE opcode = 91 -> main_jump_fwd(t)
               [] opcode = 93 -> main_jump_bck(t)
               [] opcode = 62 -> main_ptr_inc(t)
               [] opcode = 60 -> main_ptr_dec(t)
               [] opcode = 43 -> main_value_inc(t)
               [] opcode = 45 -> main_value_dec(t)
               [] opcode = 46 -> main_write_char(t)
               [] opcode = 44 -> main_read_char(t, rd)
               [] OTHER -> t

----------------------------------------------------------------------------
(* The source files and the initial states.                                *)

Alphabet == Opcodes \cup {32}
BracketAlphabet == {JUMP_FWD, JUMP_BCK, DATA_VALUE_INC}

ArithAlphabet == {DATA_VALUE_INC, DATA_VALUE_DEC}

SeqsUpTo(S, n) == UNION {[1 .. k -> S] : k \in 0 .. n}

\* the program of insert_code in the tests of brainfuck.rs: +++++[>+<-]
TestProgram == <<43, 43, 43, 43, 43, 91, 62, 43, 60, 45, 93>>
\* N times '+', then [>+<-]: the test program is CountLoop(5)
CountLoop(N) == [i \in 1 .. N |-> DATA_VALUE_INC] \o <<91, 62, 43, 60, 45, 93>>
CountLoops == {CountLoop(N) : N \in 0 .. MaxCount}
\* [+][-]
TwoLoops == <<91, 43, 93, 91, 45, 93>>
\* a source longer than either code buffer
LongProgram == [i \in 1 .. CODE_SIZE + 1 |-> DATA_VALUE_INC]

Programs ==
    SeqsUpTo(Alphabet, MaxLen) \cup SeqsUpTo(BracketAlphabet, MaxBracketLen)
        \cup SeqsUpTo(ArithAlphabet, MaxArithLen)
        \cup CountLoops
        \cup {TestProgram, TwoLoops, LongProgram}

Files ==
    {[exists |-> FALSE, bytes |-> <<>>]}
        \cup {[exists |-> TRUE, bytes |-> b] : b \in Programs}

NoEvent == [act |-> "init", at |-> -1, op |-> -1, rd |-> NoChar]

Init ==
    /\ driver \in {"vm", "main"}
    /\ argc \in (IF driver = "main" THEN {1, 2} ELSE {2})
    /\ file \in Files
    /\ vm = new
    /\ mn = main_new
    /\ ev = NoEvent
    /\ inside = TRUE

----------------------------------------------------------------------------
(* The actions.                                                            *)

\* the characters '.' has written so far
Written(out) == Len(SelectSeq(out, LAMBDA x : x[1] = "chr"))

\* a caller of VMCore calls load on the new VM
VMLoad ==
    /\ driver = "vm"
    /\ vm.state = "new"
    /\ \E ord \in Orders(DOMAIN load(vm, file, <<>>).jumps) :
          vm' = load(vm, file, ord)
    /\ ev' = [NoEvent EXCEPT !.act = "load"]
    /\ UNCHANGED <<driver, argc, file, mn, inside>>

\* one iteration of the loop of execute on the loaded VM
VMStep ==
    /\ driver = "vm"
    /\ vm.state = "run"
    /\ vm.pc < Len(vm.code)
    /\ LET opcode == At(vm.code, vm.pc)
       IN  /\ opcode = WRITE_CHAR => Written(vm.out) < MaxOut
           /\ \E rd \in ReadResults :
                 /\ opcode = READ_CHAR \/ rd = NoChar
                 /\ vm' = execute_step(vm, rd)
                 /\ ev' = [act |-> "step", at |-> vm.pc, op |-> opcode, rd |-> rd]
    /\ UNCHANGED <<driver, argc, file, mn, inside>>

\* the loop condition of execute fails and execute returns
VMDone ==
    /\ driver = "vm"
    /\ vm.state = "run"
    /\ ~(vm.pc < Len(vm.code))
    /\ vm' = [vm EXCEPT !.state = "done"]
    /\ ev' = [NoEvent EXCEPT !.act = "done"]
    /\ UNCHANGED <<driver, argc, file, mn, inside>>

\* main() up to the interpreter loop
MainStart ==
    /\ driver = "main"
    /\ mn.state = "start"
    /\ mn' = main_start(mn, argc, file)
    /\ ev' = [NoEvent EXCEPT !.act = "load"]
    /\ UNCHANGED <<driver, argc, file, vm, inside>>

\* one iteration of the interpreter loop of main()
MainStep ==
    /\ driver = "main"
    /\ mn.state = "run"
    /\ mn.pc <= mn.nbytes
    /\ LET opcode == IF mn.pc < MAIN_CODE_SIZE THEN At(mn.code, mn.pc) ELSE -1
       IN  /\ opcode = 46 => Written(mn.out) < MaxOut
           /\ \E rd \in ReadResults :
                 /\ opcode = 44 \/ rd = NoChar
                 /\ mn' = main_step(mn, rd)
                 /\ ev' = [act |-> "step", at |-> mn.pc, op |-> opcode, rd |-> rd]
    /\ UNCHANGED <<driver, argc, file, vm, inside>>

\* the loop condition of main() fails and main returns: exit status 0
MainDone ==
    /\ driver = "main"
    /\ mn.state = "run"
    /\ ~(mn.pc <= mn.nbytes)
    /\ mn' = Exit(mn, 0)
    /\ ev' = [NoEvent EXCEPT !.act = "done"]
    /\ UNCHANGED <<driver, argc, file, vm, inside>>

\* compute_jumps is called once more on the VM that load has just filled,
\* with the same byte count
VMResolve ==
    /\ driver = "vm"
    /\ vm.state = "run"
    /\ ev.act = "load"
    /\ LET r == compute_jumps(vm.code, vm.jumps, vm.n)
       IN  vm' = IF r.ok THEN [vm EXCEPT !.jumps = r.jumps]
                 ELSE Panic([vm EXCEPT !.jumps = r.jumps], "unwrap on Err")
    /\ ev' = [NoEvent EXCEPT !.act = "resolve"]
    /\ UNCHANGED <<driver, argc, file, mn, inside>>

Next == VMLoad \/ VMStep \/ VMDone \/ MainStart \/ MainStep \/ MainDone

Spec == Init /\ [][Next]_vars

\* VMCore on the counting programs.  The interpreter is one thread that runs
\* until its loop ends: a step that can be taken is taken
InitCount == Init /\ driver = "vm" /\ file.exists /\ file.bytes \in CountLoops

NextVM == VMLoad \/ VMStep \/ VMDone

\* VMCore and main.rs side by side: both are given the same file, and each
\* dispatch of one goes with a dispatch of the other on the same input
InitBoth ==
    /\ driver = "both"
    /\ argc = 2
    /\ file \in Files
    /\ vm = new
    /\ mn = main_new
    /\ ev = NoEvent
    /\ inside = TRUE

VMRunning == vm.state = "run" /\ vm.pc < Len(vm.code)
MainRunning == mn.state = "run" /\ mn.pc <= mn.nbytes

\* load of VMCore, and main() up to its loop
BothLoad ==
    /\ driver = "both"
    /\ vm.state = "new" /\ mn.state = "start"
    /\ \E ord \in Orders(DOMAIN load(vm, file, <<>>).jumps) :
          vm' = load(vm, file, ord)
    /\ mn' = main_start(mn, argc, file)
    /\ ev' = [NoEvent EXCEPT !.act = "load"]
    /\ UNCHANGED <<driver, argc, file, inside>>

\* one iteration of each loop that is still running
BothStep ==
    /\ driver = "both"
    /\ VMRunning \/ MainRunning
    /\ LET vop == IF VMRunning THEN At(vm.code, vm.pc) ELSE -1
           mop == IF MainRunning /\ mn.pc < MAIN_CODE_SIZE
                  THEN At(mn.code, mn.pc) ELSE -1
           wraps == \/ vop = DATA_PTR_INC /\ vm.dp = DATA_SIZE - 1
                    \/ vop = DATA_PTR_DEC /\ vm.dp = 0
       IN  /\ vop = WRITE_CHAR => Written(vm.out) < MaxOut
           /\ mop = 46 => Written(mn.out) < MaxOut
           /\ \E rd \in ReadResults :
                 /\ vop = READ_CHAR \/ mop = 44 \/ rd = NoChar
                 /\ vm' = IF VMRunning THEN execute_step(vm, rd) ELSE vm
                 /\ mn' = IF MainRunning THEN main_step(mn, rd) ELSE mn
                 /\ ev' = [act |-> "step", at |-> IF VMRunning THEN vm.pc ELSE mn.pc,
                           op |-> IF VMRunning THEN vop ELSE mop, rd |-> rd]
           /\ inside' = (inside /\ ~wraps /\ (MainRunning => InTape(mn')))
    /\ UNCHANGED <<driver, argc, file>>

\* both loop conditions have failed: execute returns, main returns
BothDone ==
    /\ driver = "both"
    /\ ~VMRunning /\ ~MainRunning
    /\ vm.state = "run" \/ mn.state = "run"
    /\ vm' = IF vm.state = "run" THEN [vm EXCEPT !.state = "done"] ELSE vm
    /\ mn' = IF mn.state = "run" THEN Exit(mn, 0) ELSE mn
    /\ ev' = [NoEvent EXCEPT !.act = "done"]
    /\ UNCHANGED <<driver, argc, file, inside>>

NextBoth == BothLoad \/ BothStep \/ BothDone

SpecBoth == InitBoth /\ [][NextBoth]_vars

\* VMCore loaded, and its resolver run a second time
InitVM == Init /\ driver = "vm"

NextResolve == VMLoad \/ VMResolve

SpecResolve == InitVM /\ [][NextResolve]_vars

SpecCount == InitCount /\ [][NextVM]_vars /\ WF_vars(NextVM)

----------------------------------------------------------------------------
(* Bracket structure of a program, stated without the resolver's stack.    *)

\* the offsets a .. b of program p that hold byte x
Holding(p, x, a, b) == {i \in a .. b : At(p, i) = x}

\* the brackets of p at offsets a .. b nest properly
Nested(p, a, b) ==
    /\ Cardinality(Holding(p, JUMP_FWD, a, b))
          = Cardinality(Holding(p, JUMP_BCK, a, b))
    /\ \A k \in a .. b :
          Cardinality(Holding(p, JUMP_FWD, a, k))
             >= Cardinality(Holding(p, JUMP_BCK, a, k))

\* the '[' at offset o and the ']' at offset c of p are a matching pair
Matching(p, o, c) ==
    /\ o < c
    /\ At(p, o) = JUMP_FWD
    /\ At(p, c) = JUMP_BCK
    /\ Nested(p, o + 1, c - 1)

\* the whole program is balanced
Balanced(p) == Nested(p, 0, Len(p) - 1)

\* the program loaded into the VM, into main(): the bytes actually read
VMProgram == SubSeq(vm.code, 1, vm.n)
MainProgram == SubSeq(mn.code, 1, mn.nbytes)

\* load has run and compute_jumps returned Ok
VMAccepted ==
    /\ driver = "vm"
    /\ vm.state \in {"run", "done", "panic"}
    /\ vm.fault # "unwrap on Err"

\* load has run and the unwrap of compute_jumps met the Err
VMRejected ==
    /\ driver = "vm"
    /\ vm.state = "panic"
    /\ vm.fault = "unwrap on Err"

\* main() has read the file and is past its call of compute_jumps
MainResolved ==
    /\ driver = "main"
    /\ mn.state # "start"
    /\ argc >= 2
    /\ file.exists

\* compute_jumps of main.rs printed the error and left with status 1
MainRejected == MainResolved /\ mn.state = "exit" /\ mn.exit = 1

MainAccepted == MainResolved /\ ~MainRejected

----------------------------------------------------------------------------
(* C1: for every program compute_jumps accepts and every properly nested   *)
(* matching pair with '[' at o and ']' at c, the mapping has               *)
(* jump[o] = c + 1 and jump[c] = o + 1; for [+][-] it is 0->3, 2->1, 3->6, *)
(* 5->4 and for the 11-byte test program 5->11, 10->6.                     *)
C1_PairTargets ==
    /\ VMAccepted =>
          /\ \A o, c \in 0 .. vm.n - 1 :
                Matching(VMProgram, o, c) =>
                    /\ o \in DOMAIN vm.jumps /\ vm.jumps[o] = c + 1
                    /\ c \in DOMAIN vm.jumps /\ vm.jumps[c] = o + 1
          /\ file.bytes = TwoLoops =>
                vm.jumps = (0 :> 3) @@ (2 :> 1) @@ (3 :> 6) @@ (5 :> 4)
          /\ file.bytes = TestProgram =>
                vm.jumps = (5 :> 11) @@ (10 :> 6)
    /\ MainAccepted =>
          \A o, c \in 0 .. mn.nbytes - 1 :
              Matching(MainProgram, o, c) =>
                  /\ o \in DOMAIN mn.jumps /\ mn.jumps[o] = c + 1
                  /\ c \in DOMAIN mn.jumps /\ mn.jumps[c] = o + 1

\* an accepted program with a pair nested inside another: [[]]
C1_Witness ==
    /\ VMAccepted
    /\ VMProgram = <<91, 91, 93, 93>>
    /\ Matching(VMProgram, 0, 3) /\ Matching(VMProgram, 1, 2)
    /\ vm.jumps[0] = 4 /\ vm.jumps[3] = 1

(* C2: the resolver fails with the unbalanced-brackets error exactly when  *)
(* the program's brackets are unbalanced (an unmatched ']' or a '[' still  *)
(* pending at the end of the scan) and succeeds for every balanced one.    *)
C2_RejectsIffUnbalanced ==
    /\ (driver = "vm" /\ vm.state \in {"run", "done", "panic"}) =>
          (VMRejected <=> ~Balanced(VMProgram))
    /\ MainResolved => (MainRejected <=> ~Balanced(MainProgram))

(* C3: after compute_jumps accepts a program, the keys of the Jump Mapping *)
(* are exactly the offsets below the program length that hold '[' or ']'.  *)
C3_KeysAreBrackets ==
    VMAccepted =>
        DOMAIN vm.jumps
           = Holding(VMProgram, JUMP_FWD, 0, vm.n - 1)
                \cup Holding(VMProgram, JUMP_BCK, 0, vm.n - 1)

\* an accepted program with two loops and four keys
C3_Witness ==
    /\ VMAccepted
    /\ VMProgram = TwoLoops
    /\ DOMAIN vm.jumps = {0, 2, 3, 5}

(* C4: if the loaded program has unbalanced brackets, the run is fatal     *)
(* before the first dispatch: no instruction of the program is ever        *)
(* dispatched, by VMCore or by main.rs.                                    *)
C4_NoDispatchIfUnbalanced ==
    /\ (driver = "vm" /\ ev.act = "step") => Balanced(VMProgram)
    /\ (driver = "main" /\ ev.act = "step") => Balanced(MainProgram)

(* C5: while a program the resolver accepted runs, with any input, no      *)
(* fault is reachable: dp stays a valid cell index, every fetch is inside  *)
(* the code buffer, every taken bracket finds its entry and the read       *)
(* instruction never aborts the run.  Stated for balanced programs, the    *)
(* ones a resolver that checks the balance accepts.                        *)
C5_NoFault ==
    /\ (VMAccepted /\ Balanced(VMProgram)) =>
          /\ vm.state # "panic"
          /\ vm.dp \in 0 .. DATA_SIZE - 1
    /\ (MainAccepted /\ Balanced(MainProgram)) =>
          /\ mn.exit # 101
          /\ mn.dp \in 0 .. MAIN_DATA_SIZE - 1

(* C6: the data pointer moves modulo the tape size: a dispatch of '>'      *)
(* leaves dp = (dp + 1) mod size and a dispatch of '<' leaves              *)
(* dp = (dp - 1) mod size, in VMCore and in main.rs.                       *)
C6_PointerWraps ==
    [][/\ (driver = "vm" /\ ev'.act = "step" /\ ev'.op = DATA_PTR_INC) =>
              vm'.dp = (vm.dp + 1) % DATA_SIZE
       /\ (driver = "vm" /\ ev'.act = "step" /\ ev'.op = DATA_PTR_DEC) =>
              vm'.dp = (vm.dp - 1) % DATA_SIZE
       /\ (driver = "main" /\ ev'.act = "step" /\ ev'.op = DATA_PTR_INC) =>
              mn'.dp = (mn.dp + 1) % MAIN_DATA_SIZE
       /\ (driver = "main" /\ ev'.act = "step" /\ ev'.op = DATA_PTR_DEC) =>
              mn'.dp = (mn.dp - 1) % MAIN_DATA_SIZE]_vars

(* C7: cell values are arithmetic modulo 256: after N dispatches of '+'   *)
(* and M of '-' on a cell that held v, in any order and with dp unchanged, *)
(* the cell holds (v + N - M) mod 256; 253 plus five increments gives 2    *)
(* and 2 minus five decrements gives 253.                                  *)

\* the program has no instruction other than '+' and '-'
OnlyArith(p) == \A i \in 1 .. Len(p) : p[i] \notin Opcodes \ ArithAlphabet

\* ---+++++ and ++-----
Wrap253Plus5 == <<45, 45, 45, 43, 43, 43, 43, 43>>
Wrap2Minus5 == <<43, 43, 45, 45, 45, 45, 45>>

\* the cell after the first k bytes of a program of '+' and '-' run on the
\* zeroed tape
C7_Prefix ==
    (VMAccepted /\ OnlyArith(VMProgram)) =>
        LET k == Min(vm.pc, vm.n)
            N == Cardinality(Holding(VMProgram, DATA_VALUE_INC, 0, k - 1))
            M == Cardinality(Holding(VMProgram, DATA_VALUE_DEC, 0, k - 1))
        IN  /\ vm.dp = 0
            /\ vm.data[0] = (0 + N - M) % 256
            /\ (file.bytes = Wrap253Plus5 /\ vm.pc = 3) => vm.data[0] = 253
            /\ (file.bytes = Wrap253Plus5 /\ vm.pc >= 8) => vm.data[0] = 2
            /\ (file.bytes = Wrap2Minus5 /\ vm.pc = 2) => vm.data[0] = 2
            /\ (file.bytes = Wrap2Minus5 /\ vm.pc >= 7) => vm.data[0] = 253

\* one dispatch of '+' or '-' on a cell holding any v
C7_Step ==
    /\ (driver = "vm" /\ ev'.act = "step" /\ ev'.op = DATA_VALUE_INC) =>
          /\ vm'.data = [vm.data EXCEPT ![vm.dp] = (@ + 1) % 256]
          /\ vm'.dp = vm.dp
    /\ (driver = "vm" /\ ev'.act = "step" /\ ev'.op = DATA_VALUE_DEC) =>
          /\ vm'.data = [vm.data EXCEPT ![vm.dp] = (@ - 1) % 256]
          /\ vm'.dp = vm.dp

C7_CellArithmetic == []C7_Prefix /\ [][C7_Step]_vars

\* 253 + 5 has wrapped to 2 at the end of ---+++++
C7_Witness ==
    /\ driver = "vm"
    /\ vm.state = "done"
    /\ file.bytes = Wrap253Plus5
    /\ vm.data[0] = 2

(* C8: a bracket dispatch overwrites pc with jumpMapping[pc - 1] exactly   *)
(* when its condition holds ('[' with the current cell = 0, ']' with the   *)
(* current cell # 0); otherwise pc stays one past the bracket.  The tape   *)
(* and dp are unchanged in both cases.                                     *)
C8_BracketDispatch ==
    [][(driver = "vm" /\ ev'.act = "step" /\ ev'.op \in {JUMP_FWD, JUMP_BCK}) =>
          LET taken == IF ev'.op = JUMP_FWD THEN vm.data[vm.dp] = 0
                       ELSE vm.data[vm.dp] # 0
          IN  /\ vm'.data = vm.data
              /\ vm'.dp = vm.dp
              /\ vm'.state = "run"
              /\ taken => /\ vm.pc \in DOMAIN vm.jumps
                          /\ vm'.pc = vm.jumps[vm.pc]
                          /\ vm'.pc # vm.pc + 1
              /\ ~taken => vm'.pc = vm.pc + 1]_vars

\* the ']' of +[] was dispatched on a cell holding 1 and went back to 2
C8_Witness ==
    /\ driver = "vm"
    /\ ev.act = "step" /\ ev.op = JUMP_BCK /\ ev.at = 2
    /\ vm.data[vm.dp] = 1
    /\ vm.pc = 2

(* C9: execution stops the instant pc reaches or exceeds the length of the *)
(* loaded program (the number of bytes actually read): no byte at an       *)
(* offset >= that length is ever fetched or dispatched.                    *)
C9_StopsAtProgramEnd ==
    /\ (driver = "vm" /\ ev.act = "step") => ev.at < vm.n
    /\ (driver = "main" /\ ev.act = "step") => ev.at < mn.nbytes

(* C10: dispatching a byte that is none of the eight opcodes advances pc   *)
(* by exactly one and leaves the tape, dp, the Jump Mapping and the output *)
(* unchanged, with no error.                                               *)
C10_UnknownByteIsNoOp ==
    [][(driver = "vm" /\ ev'.act = "step" /\ ev'.op \notin Opcodes) =>
          vm' = [vm EXCEPT !.pc = vm.pc + 1]]_vars

\* the space of a program "+ ." was dispatched between the '+' and the '.'
C10_Witness ==
    /\ driver = "vm"
    /\ VMProgram = <<43, 32, 46>>
    /\ ev.act = "step" /\ ev.op = 32 /\ ev.at = 1
    /\ vm.state = "run" /\ vm.pc = 2 /\ vm.data[0] = 1

(* C11: +++++[>+<-] run from pc = 0, dp = 0 and the zeroed tape terminates *)
(* with cell 0 = 0 and cell 1 = 5; N times '+' followed by [>+<-]          *)
(* terminates with cell 0 = 0, cell 1 = N and dp = 0.                      *)

\* VMCore was given a counting program
C11_Given == driver = "vm" /\ file.exists /\ file.bytes \in CountLoops

\* execute has returned with the count moved to cell 1
C11_Result ==
    /\ vm.state = "done"
    /\ vm.dp = 0
    /\ vm.data[0] = 0
    /\ vm.data[1] = Len(file.bytes) - 6
    /\ file.bytes = TestProgram => vm.data[1] = 5

C11_CountLoopTerminates ==
    /\ C11_Given ~> C11_Result
    /\ [](C11_Given /\ vm.state = "done" => C11_Result)

\* the test program has ended with 5 in cell 1
C11_Witness ==
    /\ C11_Given
    /\ file.bytes = TestProgram
    /\ vm.state = "done"
    /\ vm.data[0] = 0 /\ vm.data[1] = 5

(* C12: when the read instruction is dispatched and the input device      *)
(* returns a character, the current cell is set to that character's        *)
(* numeric value mod 256, for every character the device can return; dp    *)
(* and all other cells are unchanged.                                      *)
C12_ReadStoresCharacter ==
    [][/\ (driver = "vm" /\ ev'.act = "step" /\ ev'.op = READ_CHAR
              /\ ev'.rd # NoChar) =>
              vm' = [vm EXCEPT !.pc = vm.pc + 1,
                               !.data[vm.dp] = ev'.rd % 256]
       /\ (driver = "main" /\ ev'.act = "step" /\ ev'.op = READ_CHAR
              /\ ev'.rd # NoChar /\ InTape(mn)) =>
              mn' = [mn EXCEPT !.pc = mn.pc + 1,
                               !.data[mn.dp] = ev'.rd % 256]]_vars

(* C13: when the read instruction is dispatched and the input device       *)
(* reports that no character is available, the whole tape and dp are       *)
(* unchanged, pc is one past the read instruction and execution continues. *)
C13_ReadWithoutCharacter ==
    [][(driver = "vm" /\ ev'.act = "step" /\ ev'.op = READ_CHAR
           /\ ev'.rd = NoChar) =>
           /\ vm' = [vm EXCEPT !.pc = vm.pc + 1]
           /\ vm'.state = "run"]_vars

\* the ',' of +, met no character: cell 0 still holds 1 and the run goes on
C13_Witness ==
    /\ driver = "vm"
    /\ VMProgram = <<43, 44>>
    /\ ev.act = "step" /\ ev.op = READ_CHAR /\ ev.rd = NoChar
    /\ vm.state = "run" /\ vm.pc = 2 /\ vm.data[0] = 1

(* C14: the resolver is idempotent: run a second time on the same program, *)
(* on the VM whose mapping the first run filled, it leaves a mapping       *)
(* identical to the one a single run on an empty mapping produces.         *)
C14_ResolverIdempotent ==
    ev.act = "resolve" =>
        /\ vm.state = "run"
        /\ vm.jumps = compute_jumps(vm.code, EmptyMap, vm.n).jumps
        /\ DOMAIN vm.jumps
              = Holding(VMProgram, JUMP_FWD, 0, vm.n - 1)
                   \cup Holding(VMProgram, JUMP_BCK, 0, vm.n - 1)

\* the second run on [+][-] left the four entries of the first
C14_Witness ==
    /\ ev.act = "resolve"
    /\ VMProgram = TwoLoops
    /\ vm.jumps = (0 :> 3) @@ (2 :> 1) @@ (3 :> 6) @@ (5 :> 4)

(* C15: if the named program source does not exist, loading reports the   *)
(* source-not-found error before any read, and the run ends with a         *)
(* non-zero exit status without computing jumps or dispatching anything.   *)
C15_SourceNotFound ==
    /\ (driver = "main" /\ argc >= 2 /\ ~file.exists /\ mn.state # "start") =>
          /\ mn = [main_new EXCEPT !.state = "exit", !.exit = 1,
                                   !.out = <<Msg("Unable to find the file")>>]
          /\ ev.act = "load"
    /\ (driver = "vm" /\ ~file.exists /\ vm.state # "new") =>
          /\ vm = [new EXCEPT !.state = "err"]
          /\ ev.act = "load"

\* main.rs named a file that is not there and has left with status 1
C15_Witness ==
    /\ driver = "main" /\ argc = 2 /\ ~file.exists
    /\ mn.state = "exit" /\ mn.exit = 1
    /\ mn.out = <<Msg("Unable to find the file")>>
    /\ mn.nbytes = 0 /\ mn.jumps = EmptyMap

(* C16: started with no program-source argument, the process reports the   *)
(* "please specify a source file" message and exits with a non-zero        *)
(* status, without attempting to load or execute anything.                 *)
C16_MissingArgument ==
    (driver = "main" /\ argc = 1 /\ mn.state # "start") =>
        /\ mn.state = "exit"
        /\ mn.exit # 0
        /\ mn.out = <<Msg("Please specify a source code file on the command line")>>
        /\ ev.act = "load"

(* C17: across every dispatch of the execution loop, a cell of the tape    *)
(* changes only when the dispatched instruction is 'increment value' or    *)
(* 'decrement value', and then only the cell at dp changes; every other    *)
(* instruction leaves the whole tape unchanged.                            *)
C17_OnlyIncDecWrite ==
    [][(driver = "vm" /\ ev'.act = "step" /\ vm'.data # vm.data) =>
          /\ ev'.op \in {DATA_VALUE_INC, DATA_VALUE_DEC}
          /\ \A i \in DOMAIN vm.data : i # vm.dp => vm'.data[i] = vm.data[i]]_vars

(* C17, amended: a cell of the tape changes only when the dispatched       *)
(* instruction is 'increment value', 'decrement value' or 'read', and then *)
(* only the cell at dp changes; every other instruction leaves the whole   *)
(* tape unchanged.                                                         *)
C17_OnlyIncDecReadWrite ==
    [][(driver = "vm" /\ ev'.act = "step" /\ vm'.data # vm.data) =>
          /\ ev'.op \in {DATA_VALUE_INC, DATA_VALUE_DEC, READ_CHAR}
          /\ vm'.dp = vm.dp
          /\ DOMAIN vm'.data = DOMAIN vm.data
          /\ \A i \in DOMAIN vm.data : i # vm.dp => vm'.data[i] = vm.data[i]]_vars

\* the ',' of the program , was given '7' and wrote 7 into cell 0
C17_Witness ==
    /\ driver = "vm"
    /\ VMProgram = <<44>>
    /\ ev.act = "step" /\ ev.op = READ_CHAR /\ ev.rd = 55
    /\ vm.data[0] = 7 /\ vm.data[1] = 0

(* C18: for every program of length n that compute_jumps accepts, every    *)
(* stored target lies in 1 .. n, the target of a '[' is at least its own   *)
(* offset plus 2 and the target of a ']' is at most its own offset;        *)
(* consequently 0 <= pc <= n in every reachable state of execute.          *)
C18_TargetsAndPcInProgram ==
    VMAccepted =>
        /\ \A k \in DOMAIN vm.jumps :
              /\ vm.jumps[k] \in 1 .. vm.n
              /\ At(vm.code, k) = JUMP_FWD => vm.jumps[k] >= k + 2
              /\ At(vm.code, k) = JUMP_BCK => vm.jumps[k] <= k
        /\ vm.pc >= 0
        /\ vm.pc <= vm.n

(* C19: the VM's bracket semantics (a taken '[' continues one past the     *)
(* matching ']', a taken ']' continues one past the matching '[' without   *)
(* re-testing it) is equivalent to the canonical semantics, in which a     *)
(* taken ']' jumps to the matching '[' and that '[' re-tests the cell:     *)
(* both run the same non-bracket instructions, so they produce the same    *)
(* tape, dp and output, and one terminates iff the other does.             *)

\* the partner of the bracket at offset i of program p
MatchClose(p, o) == CHOOSE c \in 0 .. Len(p) - 1 : Matching(p, o, c)
MatchOpen(p, c) == CHOOSE o \in 0 .. Len(p) - 1 : Matching(p, o, c)

\* one dispatch of the canonical interpreter on the machine state s: the
\* brackets find their partner in the program text, the other instructions
\* are those of the VM
canon_step(s, rd) ==
    LET opcode == At(s.code, s.pc)
        t == [s EXCEPT !.pc = s.pc + 1]
    IN  CASE opcode = JUMP_FWD ->
                IF s.data[s.dp] = 0
                THEN [s EXCEPT !.pc = MatchClose(s.code, s.pc) + 1]
                ELSE t
          [] opcode = JUMP_BCK ->
                IF s.data[s.dp] # 0
                THEN [s EXCEPT !.pc = MatchOpen(s.code, s.pc)]
                ELSE t
          [] OTHER -> execute_step(s, rd)

\* the ']' at s.pc is about to be taken
BackJump(s) == At(s.code, s.pc) = JUMP_BCK /\ s.data[s.dp] # 0

\* the canonical interpreter up to the point the VM reaches in one dispatch:
\* one dispatch, and after a taken ']' the re-test of the '[' it went to
canon_follow(s, rd) ==
    IF BackJump(s) THEN canon_step(canon_step(s, rd), NoChar)
    ELSE canon_step(s, rd)

\* every dispatch of the VM is matched by the canonical interpreter, which
\* arrives in the same state (pc, dp, tape, output, running or not)
C19_BracketSemanticsCanonical ==
    [][(driver = "vm" /\ ev'.act = "step") =>
          /\ vm' = canon_follow(vm, ev'.rd)
          /\ BackJump(vm) =>
                LET a == canon_step(vm, ev'.rd)
                IN  /\ At(a.code, a.pc) = JUMP_FWD
                    /\ Matching(VMProgram, a.pc, vm.pc)
                    /\ a.data = vm.data /\ a.dp = vm.dp /\ a.out = vm.out]_vars

\* the ']' of the test program was taken with 4 left in cell 0: the VM is at
\* offset 6, one past the '[' the canonical interpreter re-tests
C19_Witness ==
    /\ driver = "vm"
    /\ VMProgram = TestProgram
    /\ ev.act = "step" /\ ev.op = JUMP_BCK /\ ev.at = 10
    /\ vm.data[0] = 4
    /\ vm.pc = MatchOpen(VMProgram, 10) + 1

(* C20: the inline loop of main.rs and VMCore::execute are equivalent on   *)
(* runs that stay inside the tape: for every balanced program and input    *)
(* during which the data pointer is never moved past either end of the     *)
(* tape, both produce the same output sequence and the same final tape     *)
(* contents and data pointer.                                              *)

\* the characters written by '.', in order
Chars(out) == SelectSeq(out, LAMBDA x : x[1] = "chr")

\* both runs of a balanced program have ended and stayed inside the tape
C20_BothEnded ==
    /\ driver = "both"
    /\ file.exists /\ Balanced(file.bytes)
    /\ inside
    /\ vm.state \in {"done", "panic"}
    /\ mn.state = "exit"

\* the tapes hold the same cells, the longer one zeros beyond the shorter
SameTape(a, b) ==
    \A i \in (DOMAIN a) \cup (DOMAIN b) :
        (IF i \in DOMAIN a THEN a[i] ELSE 0) = (IF i \in DOMAIN b THEN b[i] ELSE 0)

C20_LoopsEquivalent ==
    C20_BothEnded =>
        /\ Chars(vm.out) = Chars(mn.out)
        /\ SameTape(vm.data, mn.data)
        /\ vm.dp = mn.dp

\* C20 for the sources that leave room in main.rs's code buffer
C20_ShortSources ==
    (C20_BothEnded /\ Len(file.bytes) < MAIN_CODE_SIZE) =>
        /\ Chars(vm.out) = Chars(mn.out)
        /\ SameTape(vm.data, mn.data)
        /\ vm.dp = mn.dp

====
